---- MODULE Spec2Model ----
\* Measurement-to-LLR bridge, fixed-value LLR generators and decoder testbench
\* generators of the quantum-decoder repository, as state machines.
\*
\* Numbers.  Python floats are modelled as exact reals of the form
\* a / (b * sqrt(q)) with integers a, b > 0, q > 0 (kind "fin"), plus the IEEE
\* values +inf, -inf and NaN.  Integrated samples are Gaussian integers, so
\* every quantity the bridge computes from them has this form exactly.  The
\* rounding error of the float operations is not modelled, with one exception:
\* the sign of a class-0 mean that is exactly 0 (see MayRound).  An LLR whose
\* product with 16 is exactly an integer n can come out of the floats just
\* below n and be truncated to n - 1; the model gives n.
\* Strings are sequences of one-character strings.
EXTENDS Integers, Sequences, FiniteSets, TLC

VARIABLES
    script,              \* which program of the repository is running
    pc,                  \* position in that program
    true_bits,           \* ground-truth bit array
    integrated_signals,  \* one complex sample per bit
    rotated_signals,     \* samples after rotation and polarity
    noise_var,           \* np.var(rotated_signals)
    llr_float,           \* real LLR per bit
    llr_fixed,           \* integer LLR array (llr_fixed / llr_values)
    files,               \* file name -> sequence of lines; <<>> when absent
    run,                 \* number of the current invocation of the bridge
    prev_files,          \* the files as the previous invocation left them
    tb_main,             \* statements of the generated main initial block
    stmt,                \* index of the next statement the simulator executes
    rst,                 \* testbench reg rst
    raw_memory,          \* testbench reg signed [7:0] raw_memory [0:575]
    L,                   \* testbench regs L1..L576, signed [31:0]
    now,                 \* simulation time of the testbench, ns
    inj,                 \* number of error indices already injected
    arg,                 \* argument of the function applied (function runs)
    result               \* its result

vars == <<script, pc, true_bits, integrated_signals, rotated_signals, noise_var,
          llr_float, llr_fixed, files, run, prev_files, tb_main, stmt, rst,
          raw_memory, L, now, inj, arg, result>>

bridgeVars == <<true_bits, integrated_signals, rotated_signals, noise_var, llr_float>>
tbVars == <<tb_main, stmt, rst, raw_memory, L, now>>
fnVars == <<arg, result>>

-----------------------------------------------------------------------------
\* Bounds of the model

\* number of bits of the ensemble the bridge is run on (576 in the script)
MaxBits == 3
\* number of invocations of the bridge in the rerun specification
MaxRuns == 2
\* largest numerator and denominator of the rational LLRs handed to the quantizer alone
MaxNum == 12
\* number of LLR file contents the testbench is simulated on
MaxPattern == 3

\* Program constants
num_bits == 576
CLIP == 127
SCALE == 16
NBITS == 8

-----------------------------------------------------------------------------
\* Arithmetic helpers

Abs(x) == IF x < 0 THEN -x ELSE x

Sgn(x) == IF x < 0 THEN -1 ELSE IF x > 0 THEN 1 ELSE 0

RECURSIVE Gcd(_, _)
Gcd(a, b) == IF b = 0 THEN a ELSE Gcd(b, a % b)

\* ---- extended reals: a / (b * sqrt(q)), +inf, -inf, NaN
Fin(a, b, q) ==
    LET g == Gcd(Abs(a), b)
    IN  IF a = 0 THEN [kind |-> "fin", a |-> 0, b |-> 1, q |-> 1]
        ELSE [kind |-> "fin", a |-> a \div g, b |-> b \div g, q |-> q]
PInf == [kind |-> "pinf", a |-> 1, b |-> 1, q |-> 1]
NInf == [kind |-> "ninf", a |-> -1, b |-> 1, q |-> 1]
NaN == [kind |-> "nan", a |-> 0, b |-> 1, q |-> 1]

\* |x| >= m for a finite x and an integer m >= 0:  a^2 >= m^2 * b^2 * q
MagAtLeast(x, m) == m * m * x.q <= (x.a * x.a) \div (x.b * x.b)

\* float * int
MulInt(x, k) ==
    CASE x.kind = "nan" -> NaN
      [] x.kind = "fin" -> Fin(x.a * k, x.b, x.q)
      [] x.kind = "pinf" -> IF k > 0 THEN PInf ELSE IF k < 0 THEN NInf ELSE NaN
      [] x.kind = "ninf" -> IF k > 0 THEN NInf ELSE IF k < 0 THEN PInf ELSE NaN

\* float / float for a rational divisor v = v.a / v.b (numpy: x/0 is +-inf, 0/0 is NaN)
DivReal(x, v) ==
    IF x.kind = "nan" \/ v.kind = "nan" THEN NaN
    ELSE IF v.a = 0 THEN (IF x.a > 0 THEN PInf ELSE IF x.a < 0 THEN NInf ELSE NaN)
    ELSE Fin(x.a * v.b * Sgn(v.a), x.b * Abs(v.a), x.q)

-----------------------------------------------------------------------------
\* Quantizer: np.clip(llr_float * 16, -127, 127).astype(int)

\* np.clip(x, lo, hi) with lo = -bound, hi = bound: NaN stays NaN
NpClip(x, bound) ==
    CASE x.kind = "nan" -> NaN
      [] x.kind = "pinf" -> Fin(bound, 1, 1)
      [] x.kind = "ninf" -> Fin(-bound, 1, 1)
      [] x.kind = "fin" ->
            IF MagAtLeast(x, bound) THEN Fin(Sgn(x.a) * bound, 1, 1) ELSE x

\* the least int64; TLC's integers are 32 bits wide, so the model holds the
\* least 32-bit integer in its place (both are multiples of 256)
IntMin == -2147483647 - 1

\* a float NaN cast to an integer is undefined: the builds give INT_MIN or 0
NaNCastOutcomes == {IntMin, 0}

\* ndarray.astype(int) of one element known to lie in [-limit, limit]:
\* truncation toward zero; nanCast is what the build makes of NaN
AsTypeIntMutRound(x, limit, nanCast) ==
    IF x.kind = "nan" THEN nanCast
    ELSE Sgn(x.a) * (CHOOSE k \in 0..limit :
                        /\ (2 * k - 1 <= 0 \/ (2 * k - 1) * (2 * k - 1) * x.q
                                                <= (4 * x.a * x.a) \div (x.b * x.b))
                        /\ \A j \in (k + 1)..limit : ~((2 * j - 1) * (2 * j - 1) * x.q
                                                <= (4 * x.a * x.a) \div (x.b * x.b)))

AsTypeInt(x, limit, nanCast) ==
    IF x.kind = "nan" THEN nanCast
    ELSE Sgn(x.a) * (CHOOSE k \in 0..limit :
                        /\ MagAtLeast(x, k)
                        /\ \A j \in (k + 1)..limit : ~MagAtLeast(x, j))

QuantizerMutNoClip(llr, scale, nanCast) ==
    AsTypeInt(MulInt(llr, scale), 4 * CLIP, nanCast)

Quantizer(llr, scale, nanCast) ==
    AsTypeInt(NpClip(MulInt(llr, scale), CLIP), CLIP, nanCast)

-----------------------------------------------------------------------------
\* to_hex: hex((val + (1 << nbits)) % (1 << nbits))[2:].upper().zfill(2)

LowerDigits == <<"0", "1", "2", "3", "4", "5", "6", "7", "8", "9",
                 "a", "b", "c", "d", "e", "f">>
UpperDigits == <<"0", "1", "2", "3", "4", "5", "6", "7", "8", "9",
                 "A", "B", "C", "D", "E", "F">>

RECURSIVE HexDigitsOf(_)
HexDigitsOf(n) ==
    IF n < 16 THEN <<LowerDigits[n + 1]>>
    ELSE HexDigitsOf(n \div 16) \o <<LowerDigits[(n % 16) + 1]>>

\* Python hex(n) for n >= 0
PyHex(n) == <<"0", "x">> \o HexDigitsOf(n)

\* s[2:]
DropTwo(s) == SubSeq(s, 3, Len(s))

UpperChar(c) ==
    IF \E k \in 1..16 : LowerDigits[k] = c
    THEN UpperDigits[CHOOSE k \in 1..16 : LowerDigits[k] = c]
    ELSE IF c = "x" THEN "X" ELSE c

\* str.upper()
PyUpper(s) == [k \in 1..Len(s) |-> UpperChar(s[k])]

\* str.zfill(width) of a string without sign
RECURSIVE ZFill(_, _)
ZFill(s, width) == IF Len(s) >= width THEN s ELSE ZFill(<<"0">> \o s, width)

to_hexMutNoPad(val, nbits) ==
    PyUpper(DropTwo(PyHex((val + 2 ^ nbits) % (2 ^ nbits))))

to_hex(val, nbits) ==
    ZFill(PyUpper(DropTwo(PyHex((val + 2 ^ nbits) % (2 ^ nbits)))), 2)

\* value of one hexadecimal digit as $readmemh reads it
HexVal(c) ==
    IF \E k \in 1..16 : UpperDigits[k] = c
    THEN (CHOOSE k \in 1..16 : UpperDigits[k] = c) - 1
    ELSE (CHOOSE k \in 1..16 : LowerDigits[k] = c) - 1

\* np.savetxt(..., fmt='%d') of one bit
DecStr(b) == <<LowerDigits[b + 1]>>

-----------------------------------------------------------------------------
\* Files

LLR_FILE == "llr_input_qutip.mem"
TRUE_FILE == "true_bits_qutip.txt"
TB_LLR_FILE == "llr_input.mem"

FileNames == {LLR_FILE, TRUE_FILE, TB_LLR_FILE}

NoFiles == [f \in FileNames |-> <<>>]

-----------------------------------------------------------------------------
\* The bridge: run_qutip_physics_bridge

\* the values an integrated sample takes in the model: the mean of a noisy
\* trace can be any complex number; the model draws it from this grid
SampleVals == {<<re, im>> : re \in -1..1, im \in 0..1}

RECURSIVE SumOver(_, _)
SumOver(f, S) ==
    IF S = {} THEN 0
    ELSE LET i == CHOOSE j \in S : TRUE IN f[i] + SumOver(f, S \ {i})

\* indices selected by the mask true_bits == b
Mask(bits, b) == {i \in DOMAIN bits : bits[i] = b}

\* complex values (re + j*im) / den, or NaN
CNaN == [kind |-> "nan", re |-> 0, im |-> 0, den |-> 1]

\* np.mean(x[mask]) of Gaussian integers: NaN for an empty selection
NpMeanMasked(sig, I) ==
    IF I = {} THEN CNaN
    ELSE [kind |-> "fin",
          re |-> SumOver([i \in I |-> sig[i][1]], I),
          im |-> SumOver([i \in I |-> sig[i][2]], I),
          den |-> Cardinality(I)]

\* x - y
CSub(x, y) ==
    IF x.kind = "nan" \/ y.kind = "nan" THEN CNaN
    ELSE [kind |-> "fin",
          re |-> x.re * y.den - y.re * x.den,
          im |-> x.im * y.den - y.im * x.den,
          den |-> x.den * y.den]

\* An angle is held as a Gaussian integer pointing in its direction.
\* np.angle(d); np.angle(0) is 0
NpAngle(d) ==
    IF d.kind = "nan" THEN [kind |-> "nan", re |-> 0, im |-> 0]
    ELSE IF d.re = 0 /\ d.im = 0 THEN [kind |-> "fin", re |-> 1, im |-> 0]
    ELSE LET g == Gcd(Abs(d.re), Abs(d.im))
         IN  [kind |-> "fin", re |-> d.re \div g, im |-> d.im \div g]

\* -angle
NegAngle(t) == [t EXCEPT !.im = -t.im]

\* A rotated sample is (re + j*im) / sqrt(q), or NaN.
RNaN == [kind |-> "nan", re |-> 0, im |-> 0, q |-> 1]

\* z * np.exp(1j * angle)
Rotate(z, t) ==
    IF t.kind = "nan" THEN RNaN
    ELSE [kind |-> "fin",
          re |-> z[1] * t.re - z[2] * t.im,
          im |-> z[1] * t.im + z[2] * t.re,
          q |-> t.re * t.re + t.im * t.im]

\* np.real(np.mean(rot[mask])) < 0; a comparison with NaN is False.
\* roundedNeg: a mean that is exactly 0 was computed as a negative value of
\* rounding-error size.
MeanRealNegative(rot, I, roundedNeg) ==
    /\ I # {}
    /\ \A i \in I : rot[i].kind = "fin"
    /\ LET sum == SumOver([i \in I |-> rot[i].re], I)
       IN  sum < 0 \/ (sum = 0 /\ roundedNeg)

\* -rotated_signals
Negate(rot) == [i \in DOMAIN rot |-> [rot[i] EXCEPT !.re = -rot[i].re, !.im = -rot[i].im]]

PolarityMutInverted(rot, bits, roundedNeg) ==
    IF ~MeanRealNegative(rot, Mask(bits, 0), roundedNeg) THEN Negate(rot) ELSE rot

\* if np.real(np.mean(rotated_signals[true_bits==0])) < 0: negate all
Polarity(rot, bits, roundedNeg) ==
    IF MeanRealNegative(rot, Mask(bits, 0), roundedNeg) THEN Negate(rot) ELSE rot

\* rotation_angle = -np.angle(avg_1 - avg_0)
RotationAngle(sig, bits) ==
    LET avg_0 == NpMeanMasked(sig, Mask(bits, 0))
        avg_1 == NpMeanMasked(sig, Mask(bits, 1))
    IN  NegAngle(NpAngle(CSub(avg_1, avg_0)))

\* integrated_signals * np.exp(1j * rotation_angle)
Rotated(sig, bits) ==
    [i \in DOMAIN sig |-> Rotate(sig[i], RotationAngle(sig, bits))]

\* The product with exp(1j * angle) is exact when the angle is 0 or the
\* sample is 0; otherwise it carries a rounding error, and a class-0 mean
\* that is exactly 0 may come out of the floats with either sign.
MayRound(sig, bits) ==
    /\ RotationAngle(sig, bits) # [kind |-> "fin", re |-> 1, im |-> 0]
    /\ \E i \in Mask(bits, 0) : sig[i] # <<0, 0>>

\* rotation, then polarity; zeroNeg: an inexact zero mean came out negative
Calibrated(sig, bits, zeroNeg) ==
    Polarity(Rotated(sig, bits), bits, zeroNeg /\ MayRound(sig, bits))

\* np.var of a complex array: mean(|x - mean(x)|^2)
NpVar(rot) ==
    LET I == DOMAIN rot
        n == Cardinality(I)
        sre == SumOver([i \in I |-> rot[i].re], I)
        sim == SumOver([i \in I |-> rot[i].im], I)
        ssq == SumOver([i \in I |-> rot[i].re * rot[i].re + rot[i].im * rot[i].im], I)
    IN  IF \E i \in I : rot[i].kind = "nan" THEN NaN
        ELSE Fin(n * ssq - sre * sre - sim * sim, n * n * rot[1].q, 1)

\* np.real(x)
NpReal(r) == IF r.kind = "nan" THEN NaN ELSE Fin(r.re, 1, r.q)

\* line 112
LLRFloat(rot, var) == [i \in DOMAIN rot |-> DivReal(MulInt(NpReal(rot[i]), 2), var)]

GenerateBits(n) ==
    /\ script = "bridge" /\ pc = "start"
    /\ \E bits \in [1..n -> {0, 1}] : true_bits' = bits
    /\ pc' = "bits"
    /\ UNCHANGED <<script, integrated_signals, rotated_signals, noise_var, llr_float,
                   llr_fixed, files, run, prev_files, tbVars, inj, fnVars>>

AddNoiseAndIntegrate ==
    /\ script = "bridge" /\ pc = "bits"
    /\ \E sig \in [1..Len(true_bits) -> SampleVals] : integrated_signals' = sig
    /\ pc' = "integrated"
    /\ UNCHANGED <<script, true_bits, rotated_signals, noise_var, llr_float,
                   llr_fixed, files, run, prev_files, tbVars, inj, fnVars>>

Calibrate ==
    /\ script = "bridge" /\ pc = "integrated"
    /\ \E zeroNeg \in BOOLEAN :
          rotated_signals' = Calibrated(integrated_signals, true_bits, zeroNeg)
    /\ pc' = "calibrated"
    /\ UNCHANGED <<script, true_bits, integrated_signals, noise_var, llr_float,
                   llr_fixed, files, run, prev_files, tbVars, inj, fnVars>>

ComputeLLR ==
    /\ script = "bridge" /\ pc = "calibrated"
    /\ noise_var' = NpVar(rotated_signals)
    /\ llr_float' = LLRFloat(rotated_signals, NpVar(rotated_signals))
    /\ pc' = "llr"
    /\ UNCHANGED <<script, true_bits, integrated_signals, rotated_signals,
                   llr_fixed, files, run, prev_files, tbVars, inj, fnVars>>

Quantize ==
    /\ script = "bridge" /\ pc = "llr"
    /\ \E nanCast \in NaNCastOutcomes :
          llr_fixed' = [i \in DOMAIN llr_float |-> Quantizer(llr_float[i], SCALE, nanCast)]
    /\ pc' = "quantized"
    /\ UNCHANGED <<script, bridgeVars, files, run, prev_files, tbVars, inj, fnVars>>

\* open("llr_input_qutip.mem", "w")
OpenLLRFile ==
    /\ script \in {"bridge", "zero_codeword", "error_injection"} /\ pc = "quantized"
    /\ files' = [files EXCEPT ![LLR_FILE] = <<>>]
    /\ pc' = "writing"
    /\ UNCHANGED <<script, bridgeVars, llr_fixed, run, prev_files, tbVars, inj, fnVars>>

\* one iteration of: for val in llr_fixed: f.write(f"{to_hex(val, 8)}\n")
WriteLLRLine ==
    /\ pc = "writing"
    /\ Len(files[LLR_FILE]) < Len(llr_fixed)
    /\ files' = [files EXCEPT ![LLR_FILE] =
                    Append(@, to_hex(llr_fixed[Len(@) + 1], NBITS))]
    /\ UNCHANGED <<script, pc, bridgeVars, llr_fixed, run, prev_files, tbVars, inj, fnVars>>

\* the with block ends
CloseLLRFile ==
    /\ pc = "writing"
    /\ Len(files[LLR_FILE]) = Len(llr_fixed)
    /\ pc' = IF script = "zero_codeword" THEN "written" ELSE "save"
    /\ UNCHANGED <<script, bridgeVars, llr_fixed, files, run, prev_files, tbVars, inj, fnVars>>

\* np.savetxt("true_bits_qutip.txt", true_bits, fmt='%d')
SaveTrueBits ==
    /\ pc = "save"
    /\ files' = [files EXCEPT ![TRUE_FILE] = [i \in DOMAIN true_bits |-> DecStr(true_bits[i])]]
    /\ pc' = "done"
    /\ UNCHANGED <<script, bridgeVars, llr_fixed, run, prev_files, tbVars, inj, fnVars>>

\* the script is started again: a new process, the files stay
Rerun ==
    /\ script = "bridge" /\ pc = "done" /\ run < MaxRuns
    /\ run' = run + 1
    /\ prev_files' = files
    /\ pc' = "start"
    /\ true_bits' = <<>> /\ integrated_signals' = <<>> /\ rotated_signals' = <<>>
    /\ noise_var' = NaN /\ llr_float' = <<>> /\ llr_fixed' = <<>>
    /\ UNCHANGED <<script, files, tbVars, inj, fnVars>>

-----------------------------------------------------------------------------
\* The fixed-value generators: generate_forced_zeros, generate_error_correction_demo

error_indices == <<10, 50, 100, 150, 200, 250, 300, 350, 400, 450>>

\* np.zeros(num_bits, dtype=int)
ZerosTrueBits ==
    /\ \/ script = "zero_codeword" /\ pc = "written" /\ pc' = "save"
       \/ script = "error_injection" /\ pc = "start" /\ pc' = "bits"
    /\ true_bits' = [i \in 1..num_bits |-> 0]
    /\ UNCHANGED <<script, integrated_signals, rotated_signals, noise_var, llr_float,
                   llr_fixed, files, run, prev_files, tbVars, inj, fnVars>>

\* np.full(num_bits, 127, dtype=int)
FullLLR ==
    /\ \/ script = "zero_codeword" /\ pc = "start" /\ pc' = "quantized"
       \/ script = "error_injection" /\ pc = "bits" /\ pc' = "inject"
    /\ llr_fixed' = [i \in 1..num_bits |-> CLIP]
    /\ UNCHANGED <<script, bridgeVars, files, run, prev_files, tbVars, inj, fnVars>>

\* array index idx (0-based) is element idx + 1 of the sequence
InjectedMutOffByOne(arr, idx) == [arr EXCEPT ![idx] = -CLIP]

\* llr_values[idx] = -127
Injected(arr, idx) == [arr EXCEPT ![idx + 1] = -CLIP]

\* one iteration of: for idx in error_indices
InjectError ==
    /\ script = "error_injection" /\ pc = "inject"
    /\ inj < Len(error_indices)
    /\ llr_fixed' = Injected(llr_fixed, error_indices[inj + 1])
    /\ inj' = inj + 1
    /\ UNCHANGED <<script, pc, bridgeVars, files, run, prev_files, tbVars, fnVars>>

InjectDone ==
    /\ script = "error_injection" /\ pc = "inject"
    /\ inj = Len(error_indices)
    /\ pc' = "quantized"
    /\ UNCHANGED <<script, bridgeVars, llr_fixed, files, run, prev_files, tbVars, inj, fnVars>>

-----------------------------------------------------------------------------
\* The testbench generators: generate_testbench_fixed, generate_printer_tb,
\* and the simulation of the main initial block they write

\* an unknown (x) bit, byte or word of a reg that was never assigned
X == -1
XWord == [hi |-> X, lo |-> X]

\* one statement of the main block; file is "" where no file is named
St(op, port, val, file) == [op |-> op, port |-> port, val |-> val, file |-> file]

\* L{i} = {{24{raw_memory[i-1][7]}}, raw_memory[i-1]};
LoadStmt(i) == St("load", i, i - 1, "")

\* for i in range(1, 577)
LoadStmts == [i \in 1..num_bits |-> LoadStmt(i)]

\* #100; rst = 1; #200; rst = 0;
ResetPulse == <<St("delay", 0, 100, ""), St("rst", 0, 1, ""),
                St("delay", 0, 200, ""), St("rst", 0, 0, "")>>

\* $write of P{i}, and a newline after every 20th: statement 21 * m is the
\* m-th newline, every other statement p writes P{p - p \div 21}
PrintStmts ==
    [p \in 1..(num_bits + num_bits \div 20) |->
        IF p % 21 = 0 THEN St("write", 0, 0, "")
                      ELSE St("write", p - p \div 21, 0, "")]

Prologue(scr) ==
    IF scr = "create_tb"
    THEN <<St("clk", 0, 0, ""), St("rst", 0, 0, ""),
           St("readmemh", 0, 0, TB_LLR_FILE), St("delay", 0, 20, "")>>
    ELSE <<St("rst", 0, 0, ""),
           St("readmemh", 0, 0, LLR_FILE), St("delay", 0, 20, "")>>

Epilogue(scr) ==
    IF scr = "create_tb"
    THEN <<St("display", 0, 0, ""), St("delay", 0, 20000, ""),
           St("display", 0, 0, ""), St("finish", 0, 0, "")>>
    ELSE <<St("display", 0, 0, ""), St("delay", 0, 20000, ""),
           St("display", 0, 0, ""), St("display", 0, 0, "")>>
         \o PrintStmts
         \o <<St("display", 0, 0, ""), St("display", 0, 0, ""),
              St("finish", 0, 0, "")>>

MainBlockMutResetFirst(scr) ==
    Prologue(scr) \o ResetPulse \o LoadStmts \o Epilogue(scr)

\* the statements between "initial begin" and "end" of the main process
MainBlock(scr) ==
    Prologue(scr) \o LoadStmts \o ResetPulse \o Epilogue(scr)

\* the file the generated testbench reads with $readmemh
TbMemFile(scr) == IF scr = "create_tb" THEN TB_LLR_FILE ELSE LLR_FILE

RECURSIVE ParseHex(_)
ParseHex(s) ==
    IF s = <<>> THEN 0 ELSE 16 * ParseHex(SubSeq(s, 1, Len(s) - 1)) + HexVal(s[Len(s)])

\* $readmemh into reg [7:0] words: one word per line, from address 0
ReadMemH(lines, mem) ==
    [j \in DOMAIN mem |-> IF j + 1 <= Len(lines) THEN ParseHex(lines[j + 1]) % 256
                                                 ELSE mem[j]]

\* bit 7 of a byte
Bit7(byte) == byte \div 128

SignExtendMutZero(byte) ==
    IF byte = X THEN XWord ELSE [hi |-> 0, lo |-> byte]

\* {{24{b[7]}}, b}: a 32-bit word held as its upper 24 and lower 8 bits
SignExtend(byte) ==
    IF byte = X THEN XWord ELSE [hi |-> Bit7(byte) * (2 ^ 24 - 1), lo |-> byte]

\* the value of a reg signed [31:0]
Signed32(w) ==
    IF w.hi >= 2 ^ 23 THEN (w.hi - 2 ^ 24) * 256 + w.lo ELSE w.hi * 256 + w.lo

\* the value of a reg signed [7:0]
Signed8(byte) == IF byte >= 128 THEN byte - 256 ELSE byte

\* an LLR file of 576 quantized values, every value of [-127, 127] among them
LLRPattern(p) ==
    [j \in 1..num_bits |-> to_hex(((7 * j + 11 * p) % (2 * CLIP + 1)) - CLIP, NBITS)]

GenerateTb ==
    /\ script \in {"create_tb", "create_printer_tb"} /\ pc = "start"
    /\ tb_main' = MainBlock(script)
    /\ stmt' = 1
    /\ pc' = "simulate"
    /\ UNCHANGED <<script, bridgeVars, llr_fixed, files, run, prev_files,
                   rst, raw_memory, L, now, inj, fnVars>>

Cur == tb_main[stmt]

Executing(op) == pc = "simulate" /\ stmt <= Len(tb_main) /\ Cur.op = op

ExecRst ==
    /\ Executing("rst")
    /\ rst' = Cur.val
    /\ stmt' = stmt + 1
    /\ UNCHANGED <<script, pc, bridgeVars, llr_fixed, files, run, prev_files,
                   tb_main, raw_memory, L, now, inj, fnVars>>

ExecReadMemH ==
    /\ Executing("readmemh")
    /\ raw_memory' = ReadMemH(files[Cur.file], raw_memory)
    /\ stmt' = stmt + 1
    /\ UNCHANGED <<script, pc, bridgeVars, llr_fixed, files, run, prev_files,
                   tb_main, rst, L, now, inj, fnVars>>

ExecDelay ==
    /\ Executing("delay")
    /\ now' = now + Cur.val
    /\ stmt' = stmt + 1
    /\ UNCHANGED <<script, pc, bridgeVars, llr_fixed, files, run, prev_files,
                   tb_main, rst, raw_memory, L, inj, fnVars>>

ExecLoad ==
    /\ Executing("load")
    /\ L' = [L EXCEPT ![Cur.port] = SignExtend(raw_memory[Cur.val])]
    /\ stmt' = stmt + 1
    /\ UNCHANGED <<script, pc, bridgeVars, llr_fixed, files, run, prev_files,
                   tb_main, rst, raw_memory, now, inj, fnVars>>

\* clk = 0, $display and $write change nothing the model holds
ExecOther ==
    /\ \/ Executing("clk")
       \/ Executing("display")
       \/ Executing("write")
    /\ stmt' = stmt + 1
    /\ UNCHANGED <<script, pc, bridgeVars, llr_fixed, files, run, prev_files,
                   tb_main, rst, raw_memory, L, now, inj, fnVars>>

ExecFinish ==
    /\ Executing("finish")
    /\ pc' = "finished"
    /\ UNCHANGED <<script, bridgeVars, llr_fixed, files, run, prev_files,
                   tbVars, inj, fnVars>>

-----------------------------------------------------------------------------
\* The pure functions on their own

HexArgs == (-2 * CLIP - 2)..(2 * CLIP + 1)

Scales == {-SCALE, 0, 1, SCALE, 100}

QuantArgs == {Fin(n, d, 1) : n \in -MaxNum..MaxNum, d \in 1..MaxNum}
                \cup {PInf, NInf, NaN}

ApplyToHex ==
    /\ script = "to_hex" /\ pc = "start"
    /\ result' = to_hex(arg.val, arg.nbits)
    /\ pc' = "done"
    /\ UNCHANGED <<script, bridgeVars, llr_fixed, files, run, prev_files,
                   tbVars, inj, arg>>

ApplyQuantizer ==
    /\ script = "quantizer" /\ pc = "start"
    /\ \E nanCast \in NaNCastOutcomes :
          result' = Quantizer(arg.llr, arg.scale, nanCast)
    /\ pc' = "done"
    /\ UNCHANGED <<script, bridgeVars, llr_fixed, files, run, prev_files,
                   tbVars, inj, arg>>

-----------------------------------------------------------------------------
\* Specifications

InitCommon ==
    /\ pc = "start"
    /\ true_bits = <<>> /\ integrated_signals = <<>> /\ rotated_signals = <<>>
    /\ noise_var = NaN /\ llr_float = <<>> /\ llr_fixed = <<>>
    /\ run = 1 /\ prev_files = NoFiles
    /\ tb_main = <<>> /\ stmt = 0 /\ rst = X /\ now = 0
    /\ inj = 0

\* no testbench exists in the runs of the Python generators of LLR files
NoTestbench == raw_memory = <<>> /\ L = <<>>

InitBridge ==
    /\ InitCommon
    /\ NoTestbench
    /\ script = "bridge"
    /\ files = NoFiles
    /\ arg = 0 /\ result = 0

InitFixed ==
    /\ InitCommon
    /\ NoTestbench
    /\ script \in {"zero_codeword", "error_injection"}
    /\ files = NoFiles
    /\ arg = 0 /\ result = 0

\* every reg of the testbench is x until the main block assigns it
InitTb ==
    /\ InitCommon
    /\ raw_memory = [j \in 0..(num_bits - 1) |-> X]
    /\ L = [i \in 1..num_bits |-> XWord]
    /\ script \in {"create_tb", "create_printer_tb"}
    /\ \E p \in 0..MaxPattern :
          files = [NoFiles EXCEPT ![LLR_FILE] = LLRPattern(p),
                                  ![TB_LLR_FILE] = LLRPattern(p)]
    /\ arg = 0 /\ result = 0

InitToHex ==
    /\ InitCommon
    /\ NoTestbench
    /\ script = "to_hex"
    /\ files = NoFiles
    /\ arg \in [val : HexArgs, nbits : {NBITS}]
    /\ result = <<>>

InitQuantizer ==
    /\ InitCommon
    /\ NoTestbench
    /\ script = "quantizer"
    /\ files = NoFiles
    /\ arg \in [llr : QuantArgs, scale : Scales]
    /\ result = 0

Init == InitBridge \/ InitFixed \/ InitTb \/ InitToHex \/ InitQuantizer

Next ==
    \/ GenerateBits(MaxBits)
    \/ AddNoiseAndIntegrate
    \/ Calibrate
    \/ ComputeLLR
    \/ Quantize
    \/ OpenLLRFile
    \/ WriteLLRLine
    \/ CloseLLRFile
    \/ SaveTrueBits
    \/ ZerosTrueBits
    \/ FullLLR
    \/ InjectError
    \/ InjectDone
    \/ GenerateTb
    \/ ExecRst
    \/ ExecReadMemH
    \/ ExecDelay
    \/ ExecLoad
    \/ ExecOther
    \/ ExecFinish
    \/ ApplyToHex
    \/ ApplyQuantizer

Spec == Init /\ [][Next]_vars

\* the bridge alone, started again once it is done
RerunBits == 2

NextRerun ==
    \/ GenerateBits(RerunBits)
    \/ AddNoiseAndIntegrate
    \/ Calibrate
    \/ ComputeLLR
    \/ Quantize
    \/ OpenLLRFile
    \/ WriteLLRLine
    \/ CloseLLRFile
    \/ SaveTrueBits
    \/ Rerun

SpecRerun == InitBridge /\ [][NextRerun]_vars

-----------------------------------------------------------------------------
\* Properties

PostCalibrate == {"calibrated", "llr", "quantized", "writing", "save", "done"}
PostLLR == {"llr", "quantized", "writing", "save", "done"}
PostQuantize == {"quantized", "writing", "save", "done"}

BothClasses == Mask(true_bits, 0) # {} /\ Mask(true_bits, 1) # {}

InRange(v) == v \in (-CLIP)..CLIP

\* C1 -- Clip boundedness: whatever the scale factor, the quantizer turns every
\* real (finite) LLR into an integer of [-127, 127]; in the bridge every such
\* llr_fixed entry is in that range and the line written for it never encodes
\* -128 ("80").
ClipBounded ==
    /\ (script = "quantizer" /\ pc = "done" /\ arg.llr.kind = "fin") => InRange(result)
    /\ (script = "bridge" /\ pc \in PostQuantize) =>
          \A i \in DOMAIN llr_float :
             llr_float[i].kind = "fin" =>
                /\ InRange(llr_fixed[i])
                /\ i <= Len(files[LLR_FILE]) =>
                      /\ files[LLR_FILE][i] # <<"8", "0">>
                      /\ InRange(Signed8(ParseHex(files[LLR_FILE][i])))

\* a finite LLR whose product with a scale other than 16 lies below -127 was
\* quantized to the lower clip bound
ClipBoundedWitness ==
    /\ script = "quantizer" /\ pc = "done"
    /\ arg.llr = Fin(-MaxNum, 1, 1) /\ arg.scale = 100
    /\ result = -CLIP

\* C2 -- Round-trip hex encoding: for v in [-127, 127], to_hex(v, 8) is two
\* uppercase hexadecimal digits whose value is v mod 256, and read back as a
\* signed 8-bit word they give v.
HexRoundTrip ==
    (script = "to_hex" /\ pc = "done" /\ InRange(arg.val)) =>
        /\ Len(result) = 2
        /\ \A c \in 1..Len(result) : \E d \in 1..16 : UpperDigits[d] = result[c]
        /\ ParseHex(result) = arg.val % 256
        /\ Signed8(ParseHex(result)) = arg.val

\* -127 was encoded as "81"
HexRoundTripWitness ==
    /\ script = "to_hex" /\ pc = "done"
    /\ arg.val = -CLIP
    /\ result = <<"8", "1">>

\* y is a finite rational and r one of the integers nearest to it
NearestTo(y, r) == y.q = 1 /\ 2 * Abs(y.a - r * y.b) <= y.b

\* r is y rounded to a nearest integer and then clipped into [-127, 127]
RoundedThenClipped(y, r) ==
    /\ InRange(r)
    /\ \/ Abs(r) < CLIP /\ NearestTo(y, r)
       \/ r = CLIP /\ 2 * y.a >= (2 * CLIP - 1) * y.b
       \/ r = -CLIP /\ 2 * y.a <= (1 - 2 * CLIP) * y.b

\* C3 as claimed -- the quantized value is LLR * 16 rounded to the nearest
\* integer and then clipped into [-127, 127].
QuantizerRoundsToNearest ==
    (script = "quantizer" /\ pc = "done" /\ arg.llr.kind = "fin" /\ arg.scale = SCALE) =>
        RoundedThenClipped(MulInt(arg.llr, SCALE), result)

\* r is y clipped into [-127, 127] and then truncated toward zero
ClippedThenTruncated(y, r) ==
    /\ InRange(r)
    /\ r * y.a >= 0
    /\ MagAtLeast(y, Abs(r))
    /\ Abs(r) < CLIP => ~MagAtLeast(y, Abs(r) + 1)

\* C3 as amended -- the quantized value is LLR * 16 clipped into [-127, 127]
\* and then truncated toward zero (its fractional part dropped): for a
\* rational LLR a/b it is sign(a) * min(127, (16 * |a|) div b).
QuantizerTruncates ==
    /\ (script = "quantizer" /\ pc = "done" /\ arg.llr.kind = "fin"
            /\ arg.scale = SCALE) =>
          /\ ClippedThenTruncated(MulInt(arg.llr, SCALE), result)
          /\ LET m == (SCALE * Abs(arg.llr.a)) \div arg.llr.b
             IN  result = Sgn(arg.llr.a) * (IF m > CLIP THEN CLIP ELSE m)
    /\ (script = "bridge" /\ pc \in PostQuantize) =>
          \A i \in DOMAIN llr_float :
             llr_float[i].kind = "fin" =>
                ClippedThenTruncated(MulInt(llr_float[i], SCALE), llr_fixed[i])

\* 16 * 5/12 = 6.67 was quantized to 6, and 16 * -5/12 to -6
QuantizerTruncatesWitness ==
    /\ script = "quantizer" /\ pc = "done" /\ arg.scale = SCALE
    /\ \/ arg.llr = Fin(5, 12, 1) /\ result = 6
       \/ arg.llr = Fin(-5, 12, 1) /\ result = -6

\* the 0-based positions the running fixed-value generator injects errors at
ErrorSet == IF script = "error_injection"
            THEN {error_indices[j] : j \in DOMAIN error_indices} ELSE {}

\* C4 -- Fixed-value export: when a fixed-value generator is done, the LLR file
\* has 576 lines, the line of array position i (line i + 1) is "81" if i is an
\* injected position and "7F" otherwise (all "7F" without injection, exactly
\* 10 lines "81" with it), and the ground-truth file is 576 lines "0".
FixedExport ==
    (script \in {"zero_codeword", "error_injection"} /\ pc = "done") =>
        /\ Len(files[LLR_FILE]) = num_bits
        /\ \A i \in 0..(num_bits - 1) :
              files[LLR_FILE][i + 1] = IF i \in ErrorSet THEN <<"8", "1">> ELSE <<"7", "F">>
        /\ Cardinality({j \in 1..num_bits : files[LLR_FILE][j] = <<"8", "1">>})
              = (IF script = "error_injection" THEN 10 ELSE 0)
        /\ files[TRUE_FILE] = [j \in 1..num_bits |-> <<"0">>]

\* the error-injection generator is done and line 11 (position 10) reads "81"
FixedExportWitness ==
    /\ script = "error_injection" /\ pc = "done"
    /\ files[LLR_FILE][11] = <<"8", "1">>
    /\ files[LLR_FILE][10] = <<"7", "F">>

\* C5 as claimed -- Degenerate-ensemble failure: with only one bit value in the
\* codeword the run fails at calibration: it never gets past it, computes no
\* LLR and writes no line.
DegenerateEnsembleFails ==
    (script = "bridge" /\ pc # "start" /\ ~BothClasses) =>
        /\ pc \in {"bits", "integrated"}
        /\ llr_float = <<>>
        /\ files[LLR_FILE] = <<>>

Sentinels == {Fin(CLIP, 1, 1), Fin(-CLIP, 1, 1)}

\* C6 as claimed -- Degenerate-variance handling: with a variance of exactly
\* zero the run either has failed before dividing or every LLR is the sentinel
\* +127 or -127; no quotient by zero (an infinity or a NaN) is handed on.
ZeroVarianceHandled ==
    (script = "bridge" /\ pc \in PostLLR /\ noise_var.kind = "fin" /\ noise_var.a = 0) =>
        \A i \in DOMAIN llr_float : llr_float[i] \in Sentinels

\* C7 -- Calibration polarity invariant: with at least one sample per class,
\* after rotation and polarity the mean real part of the class-0 samples
\* (their sum over n0 * sqrt(q), q > 0) is >= 0.
PolarityInvariant ==
    (script = "bridge" /\ pc \in PostCalibrate /\ BothClasses) =>
        /\ \A i \in DOMAIN rotated_signals :
              rotated_signals[i].kind = "fin" /\ rotated_signals[i].q > 0
        /\ SumOver([i \in Mask(true_bits, 0) |-> rotated_signals[i].re],
                   Mask(true_bits, 0)) >= 0

\* the rotation alone left class 0 with a negative mean real part, and the
\* calibrated samples have a positive one
PolarityInvariantWitness ==
    /\ script = "bridge" /\ pc = "calibrated" /\ BothClasses
    /\ MeanRealNegative(Rotated(integrated_signals, true_bits), Mask(true_bits, 0), FALSE)
    /\ SumOver([i \in Mask(true_bits, 0) |-> rotated_signals[i].re],
               Mask(true_bits, 0)) > 0

TbScripts == {"create_tb", "create_printer_tb"}

AllLoaded == \A i \in 1..num_bits : L[i] # XWord

\* C8 -- Sign-extended harness input: once L{i} is assigned, its low 8 bits
\* are line i of the LLR file, its upper 24 bits all equal that byte's bit 7,
\* and its signed 32-bit value is the quantized value v of [-127, 127] the
\* line encodes.
SignExtendedInput ==
    (script \in TbScripts /\ pc \in {"simulate", "finished"}) =>
        \A i \in 1..num_bits :
           L[i] # XWord =>
              LET byte == ParseHex(files[TbMemFile(script)][i])
              IN  /\ L[i].lo = byte
                  /\ L[i].hi = (IF byte >= 128 THEN 2 ^ 24 - 1 ELSE 0)
                  /\ InRange(Signed8(byte))
                  /\ Signed32(L[i]) = Signed8(byte)

\* the simulation finished with every port loaded, a negative value on L1 and
\* a positive one on another port
SignExtendedInputWitness ==
    /\ script \in TbScripts /\ pc = "finished"
    /\ AllLoaded
    /\ Signed32(L[1]) < 0
    /\ \E i \in 1..num_bits : Signed32(L[i]) = CLIP

\* C9 as claimed -- Run determinism: a second run of the bridge on the same
\* inputs leaves the LLR file and the ground-truth file exactly as the first
\* run left them.
RunDeterminism ==
    (script = "bridge" /\ run = 2 /\ pc = "done") => files = prev_files

\* C10 -- Testbench stimulus ordering: rst is 0 while the ports are being
\* assigned; whenever rst is 1 the memory has been read and every port
\* L1..L576 holds its loaded value; rst is raised only after the last
\* assignment and lowered again before the decode wait and $finish.
StimulusOrdering ==
    (script \in TbScripts /\ pc \in {"simulate", "finished"}) =>
        /\ rst = 1 =>
              /\ AllLoaded
              /\ \A i \in 1..num_bits :
                    raw_memory[i - 1] # X /\ L[i] = SignExtend(raw_memory[i - 1])
        /\ (\E i \in 1..num_bits : L[i] # XWord) /\ ~AllLoaded => rst = 0
        /\ (stmt > 1 /\ Cur.op = "load") => rst = 0
        /\ pc = "finished" => rst = 0 /\ AllLoaded /\ now >= 20000

\* rst is high during the simulation
StimulusOrderingWitness ==
    /\ script \in TbScripts /\ pc = "simulate"
    /\ rst = 1
    /\ now = 120

====
